---------------------------- MODULE Spec2Model ----------------------------
(***************************************************************************)
(* Model of src/src/index.ts (altius-mcp-server): the git helper gitSpawn, *)
(* the startup loop main/ensureRepo, the four MCP tool handlers and the    *)
(* SSE session multiplexer (GET /sse, POST /messages, keep-alive, close).  *)
(*                                                                         *)
(* JavaScript strings are modelled as sequences of one-character strings,  *)
(* so that includes / startsWith / split / join / trim and the template    *)
(* literals are computed as the code computes them.                        *)
(***************************************************************************)
EXTENDS Integers, Sequences, FiniteSets, TLC

(***************************************************************************)
(* String literals of the source.                                          *)
(***************************************************************************)
sGrep == <<"g","r","e","p">>
sClone == <<"c","l","o","n","e">>
sShow == <<"s","h","o","w">>
sBranch == <<"b","r","a","n","c","h">>
sDashA == <<"-","a">>
sDashNI == <<"-","n","I">>
sDashDash == <<"-","-">>
sHEAD == <<"H","E","A","D">>
sDot == <<".">>
sDotDot == <<".",".">>
sSlash == <<"/">>
sColon == <<":">>
sNL == <<"\n">>
sRevm == <<"r","e","v","m">>
sAlloy == <<"a","l","l","o","y">>
sReth == <<"r","e","t","h">>
sNoMatches == <<"N","o"," ","m","a","t","c","h","e","s",".">>
sErrorPrefix == <<"E","r","r","o","r",":"," ">>
sGitFailedPrefix == <<"G","i","t"," ","c","o","m","m","a","n","d"," ","f","a","i","l","e","d",":"," ">>
sUnknownError == <<"U","n","k","n","o","w","n"," ","e","r","r","o","r">>
sInvalidPath == <<"I","n","v","a","l","i","d"," ","p","a","t","h"," ","s","e","c","u","r","i","t","y"," ","c","h","e","c","k"," ","f","a","i","l","e","d",".">>
sFileNotFound == <<"F","i","l","e"," ","n","o","t"," ","f","o","u","n","d"," ","o","r"," ","e","r","r","o","r"," ","r","e","a","d","i","n","g",".">>
sErrorListing == <<"E","r","r","o","r"," ","l","i","s","t","i","n","g"," ","b","r","a","n","c","h","e","s">>
sActiveRepos == <<"A","c","t","i","v","e"," ","R","e","p","o","s","i","t","o","r","i","e","s",":">>
sRepository == <<"R","e","p","o","s","i","t","o","r","y"," ">>
sNotAvailable == <<" ","i","s"," ","n","o","t"," ","a","v","a","i","l","a","b","l","e",".">>
sSpawnENOENT == <<"s","p","a","w","n"," ","g","i","t"," ","E","N","O","E","N","T">>
sMoreOpen == <<".",".","."," ","(">>
sMoreClose == <<" ","m","o","r","e"," ","m","a","t","c","h","e","s",")">>
sDash == <<"-"," ">>

\* JavaScript's undefined (an unset environment variable, an omitted optional
\* tool parameter, a missing map entry).
undefined == <<"undefined">>

(***************************************************************************)
(* String primitives of JavaScript used by the source.                     *)
(***************************************************************************)
\* !x for a string-or-undefined value: undefined and "" are falsy.
Falsy(x) == x = undefined \/ x = <<>>

\* a || b
OrElse(a, b) == IF Falsy(a) THEN b ELSE a

\* String.prototype.startsWith
StartsWith(s, p) == Len(s) >= Len(p) /\ SubSeq(s, 1, Len(p)) = p

\* String.prototype.includes
Includes(s, p) == \E i \in 1..(Len(s) - Len(p) + 1) : SubSeq(s, i, i + Len(p) - 1) = p

\* Array.prototype.includes
ArrayIncludes(a, x) == \E i \in 1..Len(a) : a[i] = x

IsSpace(c) == c \in {" ", "\n", "\t", "\r"}

RECURSIVE TrimStart(_)
TrimStart(s) == IF s # <<>> /\ IsSpace(s[1]) THEN TrimStart(Tail(s)) ELSE s

RECURSIVE TrimEnd(_)
TrimEnd(s) == IF s # <<>> /\ IsSpace(s[Len(s)]) THEN TrimEnd(SubSeq(s, 1, Len(s) - 1)) ELSE s

\* String.prototype.trim
Trim(s) == TrimEnd(TrimStart(s))

\* Index of the first "\n" in s, or 0.
RECURSIVE FirstNL(_, _)
FirstNL(s, i) == IF i > Len(s) THEN 0 ELSE IF s[i] = "\n" THEN i ELSE FirstNL(s, i + 1)

\* String.prototype.split('\n'): "" gives [""].
RECURSIVE Split(_)
Split(s) ==
  LET k == FirstNL(s, 1)
  IN IF k = 0 THEN <<s>>
     ELSE <<SubSeq(s, 1, k - 1)>> \o Split(SubSeq(s, k + 1, Len(s)))

\* Array.prototype.join('\n')
RECURSIVE Join(_)
Join(a) ==
  IF a = <<>> THEN <<>>
  ELSE IF Len(a) = 1 THEN a[1]
  ELSE a[1] \o sNL \o Join(Tail(a))

\* Array.prototype.slice(0, n)
Slice0(a, n) == SubSeq(a, 1, IF Len(a) < n THEN Len(a) ELSE n)

Digit(d) == CASE d = 0 -> "0" [] d = 1 -> "1" [] d = 2 -> "2" [] d = 3 -> "3"
              [] d = 4 -> "4" [] d = 5 -> "5" [] d = 6 -> "6" [] d = 7 -> "7"
              [] d = 8 -> "8" [] d = 9 -> "9"

\* Number-to-string conversion of a template literal, for n >= 0.
RECURSIVE NumToString(_)
NumToString(n) == IF n < 10 THEN <<Digit(n)>> ELSE NumToString(n \div 10) \o <<Digit(n % 10)>>


(***************************************************************************)
(* Configuration (index.ts 18-27).                                         *)
(***************************************************************************)
\* The keys of REPO_URLS in Object.entries order; also the z.enum of the
\* repo parameter of search_code, read_file and list_branches.
RepoNames == <<sRevm, sAlloy, sReth>>

RepoSet == {RepoNames[i] : i \in 1..Len(RepoNames)}

CACHE_DIR == <<"r","e","p","o","s">>

\* path.join(a, b) for two relative, already normalised segments.
PathJoin(a, b) == a \o sSlash \o b

(***************************************************************************)
(* A JavaScript object used as an insertion-ordered map (LOCAL_PATHS):     *)
(* a sequence of [key, value] entries.                                     *)
(***************************************************************************)
\* obj[k]
Lookup(obj, k) ==
  IF \E i \in 1..Len(obj) : obj[i].key = k
  THEN obj[CHOOSE i \in 1..Len(obj) : obj[i].key = k].value
  ELSE undefined

\* obj[k] = v : an existing key keeps its position.
Assign(obj, k, v) ==
  IF \E i \in 1..Len(obj) : obj[i].key = k
  THEN [i \in 1..Len(obj) |-> IF obj[i].key = k THEN [key |-> k, value |-> v] ELSE obj[i]]
  ELSE Append(obj, [key |-> k, value |-> v])

\* Object.keys(obj)
Keys(obj) == [i \in 1..Len(obj) |-> obj[i].key]

KeySet(obj) == {obj[i].key : i \in 1..Len(obj)}

(***************************************************************************)
(* gitSpawn (index.ts 36-61).  The child process is the environment: it    *)
(* ends with a "close" event (exit code, collected stdout and stderr) or   *)
(* with an "error" event.  The promise settles as computed here.           *)
(***************************************************************************)
Resolve(v) == [kind |-> "resolve", value |-> v]

Reject(msg) == [kind |-> "reject", value |-> msg]

\* process.on("close", (code) => ...)
gitSpawnClose(args, code, stdout, stderr) ==
  IF code = 0 THEN Resolve(Trim(stdout))
  ELSE IF ArrayIncludes(args, sGrep) /\ code = 1 THEN Resolve(<<>>)
  ELSE Reject(sGitFailedPrefix \o OrElse(stderr, sUnknownError))

\* process.on("error", (err) => reject(err))
gitSpawnError(message) == Reject(message)

\* The settlement of the promise for one end of the child process.
gitSpawnSettle(args, ev) ==
  IF ev.event = "close" THEN gitSpawnClose(args, ev.code, ev.stdout, ev.stderr)
  ELSE gitSpawnError(ev.message)

(***************************************************************************)
(* Tool handlers (index.ts 89-178).  A handler runs synchronously up to    *)
(* its first await of gitSpawn (the ...Begin operators: it returns, throws *)
(* or spawns), and resumes when that promise settles (the ...End           *)
(* operators).                                                             *)
(***************************************************************************)
Return(text, isError) == [kind |-> "return", text |-> text, isError |-> isError]

Throw(msg) == [kind |-> "throw", text |-> msg, isError |-> FALSE]

Spawn(args, cwd) == [kind |-> "spawn", args |-> args, cwd |-> cwd]

\* getPath: the path, or undefined when the function throws.
getPath(lp, repoName) == Lookup(lp, repoName)

getPathError(repoName) == sRepository \o repoName \o sNotAvailable

\* Object.keys(LOCAL_PATHS).map(k => `- ${k}`).join("\n")
list_repos(lp) ==
  LET keys == Keys(lp)
      list == Join([i \in 1..Len(keys) |-> sDash \o keys[i]])
  IN Return(sActiveRepos \o sNL \o list, FALSE)

search_codeBegin(lp, repo, query, branch, path_filter) ==
  LET cwd == getPath(lp, repo)
      ref == OrElse(branch, sHEAD)
      filter == OrElse(path_filter, sDot)
  IN IF Falsy(cwd) THEN Throw(getPathError(repo))
     ELSE Spawn(<<sGrep, sDashNI, query, ref, sDashDash, filter>>, cwd)

\* Mutant of Truncate: one line too few is kept.
Truncate_offByOne(output) ==
  LET lines == Split(output)
  IN IF Len(lines) > 50
     THEN Join(Slice0(lines, 49)) \o sNL \o sMoreOpen \o NumToString(Len(lines) - 50) \o sMoreClose
     ELSE output

\* index.ts 127-130
Truncate(output) ==
  LET lines == Split(output)
  IN IF Len(lines) > 50
     THEN Join(Slice0(lines, 50)) \o sNL \o sMoreOpen \o NumToString(Len(lines) - 50) \o sMoreClose
     ELSE output

search_codeEnd(settled) ==
  IF settled.kind = "resolve"
  THEN Return(OrElse(Truncate(settled.value), sNoMatches), FALSE)
  ELSE Return(sErrorPrefix \o settled.value, FALSE)

\* index.ts 152
PathCheckFails(filePath) == Includes(filePath, sDotDot) \/ StartsWith(filePath, sSlash)

read_fileBegin(lp, repo, filePath, branch) ==
  LET cwd == getPath(lp, repo)
      ref == OrElse(branch, sHEAD)
  IN IF Falsy(cwd) THEN Throw(getPathError(repo))
     ELSE IF PathCheckFails(filePath) THEN Return(sInvalidPath, TRUE)
     ELSE Spawn(<<sShow, ref \o sColon \o filePath>>, cwd)

read_fileEnd(settled) ==
  IF settled.kind = "resolve" THEN Return(settled.value, FALSE)
  ELSE Return(sFileNotFound, FALSE)

\* Mutant of list_branchesBegin: the branch command deletes.
list_branchesBegin_delete(lp, repo) ==
  LET cwd == getPath(lp, repo)
  IN IF Falsy(cwd) THEN Return(sErrorListing, FALSE)
     ELSE Spawn(<<sBranch, <<"-","D">>, sHEAD>>, cwd)

\* getPath is called inside the try block here.
list_branchesBegin(lp, repo) ==
  LET cwd == getPath(lp, repo)
  IN IF Falsy(cwd) THEN Return(sErrorListing, FALSE)
     ELSE Spawn(<<sBranch, sDashA>>, cwd)

list_branchesEnd(settled) ==
  IF settled.kind = "resolve" THEN Return(settled.value, FALSE)
  ELSE Return(sErrorListing, FALSE)


(***************************************************************************)
(* State.                                                                  *)
(***************************************************************************)
VARIABLES
  REPO_URLS,    \* process.env: repository name -> URL or undefined
  dotGit,       \* disk: the names whose directory under CACHE_DIR holds .git
  cacheRoot,    \* disk: CACHE_DIR exists
  LOCAL_PATHS,  \* the module-level object LOCAL_PATHS
  mainPc,       \* where main() is: "loop", "access", "clone", "listening", "rejected"
  mainIdx,      \* position of the for-loop of main() in RepoNames
  child,        \* the clone process ensureRepo awaits: its gitSpawn call, or NoChild
  conns,        \* one record per accepted GET /sse connection, in order
  transports,   \* the Map transports: session id -> index into conns
  server,       \* the transport the one McpServer is bound to (0: none)
  calls,        \* tool calls awaiting their git process, in arrival order
  posts,        \* number of POST /messages requests handled
  limit,        \* the bound of the exploration: events handled
  lastPost,     \* the last POST /messages request and its answer
  toolCall,     \* a tool handler invoked on its own: inputs, position, result
  gitCall       \* a gitSpawn invocation on its own: inputs, settlement

vars == <<REPO_URLS, dotGit, cacheRoot, LOCAL_PATHS, mainPc, mainIdx, child,
          conns, transports, server, calls, posts, lastPost, limit, toolCall, gitCall>>

startupVars == <<REPO_URLS, dotGit, cacheRoot, LOCAL_PATHS, mainPc, mainIdx, child>>

sessionVars == <<conns, transports, server, calls, posts, lastPost, limit>>

(***************************************************************************)
(* Bounds and input sets.                                                  *)
(***************************************************************************)
\* Events explored (GET /sse connections accepted, POST /messages requests
\* handled, write sides ended) when the sessions are explored from a
\* listening server (SpecServe).
MaxRequests == 4

\* The same when they are explored together with every startup (Spec).
BootRequests == 3

\* Most matching lines a git grep run prints.
MaxLines == 52

sUrl == <<"u">>

sFatal == <<"f","a","t","a","l">>

sQuery == <<"q">>

sDev == <<"d","e","v">>

\* A branch value that holds a ':' followed by path text: "dev:..".
sDevParent == sDev \o sColon \o sDotDot

\* Exit codes of a git process: success, 1, and git's fatal 128.
ExitCodes == {0, 1, 128}

\* The i-th line git grep -n prints: ref:file:line:text.
GrepLine(i) == sHEAD \o <<":","f",":">> \o NumToString(i) \o <<":","x"," ">>

RECURSIVE GrepLines(_)
GrepLines(n) == IF n = 0 THEN <<>> ELSE Append(GrepLines(n - 1), GrepLine(n))

\* What a process writes for a sequence of lines: each line ends with "\n".
RECURSIVE StdoutOf(_)
StdoutOf(lines) == IF lines = <<>> THEN <<>> ELSE lines[1] \o sNL \o StdoutOf(Tail(lines))

CloseEvent(code, stdout, stderr) ==
  [event |-> "close", code |-> code, stdout |-> stdout, stderr |-> stderr, message |-> <<>>]

ErrorEvent(message) ==
  [event |-> "error", code |-> -1, stdout |-> <<>>, stderr |-> <<>>, message |-> message]

\* The ways a git process that does not succeed can end.
FailureEvents ==
  {CloseEvent(code, <<>>, stderr) : code \in ExitCodes \ {0}, stderr \in {<<>>, sFatal}}
    \cup {ErrorEvent(sSpawnENOENT)}

\* The ways a git grep process can end: exit 0 with at least one line.
GrepEvents ==
  {CloseEvent(0, StdoutOf(GrepLines(n)), <<>>) : n \in 1..MaxLines} \cup FailureEvents

\* The ways any other git process can end.
OtherEvents ==
  {CloseEvent(0, stdout, <<>>) : stdout \in {<<>>, <<"o","k","\n">>}} \cup FailureEvents

EventsFor(args) == IF args[1] = sGrep THEN GrepEvents ELSE OtherEvents

\* LOCAL_PATHS with the names of S registered in the order of RepoNames.
RECURSIVE Registered(_, _)
Registered(S, i) ==
  IF i = 0 THEN <<>>
  ELSE IF RepoNames[i] \in S
       THEN Append(Registered(S, i - 1),
                   [key |-> RepoNames[i], value |-> PathJoin(CACHE_DIR, RepoNames[i])])
       ELSE Registered(S, i - 1)

NoChild == [kind |-> "none", args |-> <<>>, cwd |-> <<>>]

NoToolCall == [pc |-> "idle"]

NoGitCall == [pc |-> "idle"]

NoPost == [sessionId |-> undefined, status |-> 0, handedTo |-> 0]


\* Longest path given to read_file.
MaxPathLen == 3

PathChars == {".", "/", "a"}

RECURSIVE StringsUpTo(_)
StringsUpTo(n) ==
  IF n = 0 THEN {<<>>}
  ELSE LET shorter == StringsUpTo(n - 1)
       IN shorter \cup {Append(s, c) : s \in {x \in shorter : Len(x) = n - 1}, c \in PathChars}

\* Values of the path parameter of read_file (z.string()).
ToolPaths == StringsUpTo(MaxPathLen)

\* Values of the optional branch parameter (z.string().optional()).
ToolBranches == {undefined, sDev, sDevParent}

\* Values of the remote URL of a configured repository.
GitUrls == {sUrl, sGrep}

\* Mutant of CloneSpawn: the clone is run inside the repository's own
\* directory.
CloneSpawn_inRepo(remoteUrl, name) ==
  Spawn(<<sClone, remoteUrl, name>>, PathJoin(CACHE_DIR, name))

\* ensureRepo's call of gitSpawn (index.ts 75).
CloneSpawn(remoteUrl, name) == Spawn(<<sClone, remoteUrl, name>>, CACHE_DIR)

(***************************************************************************)
(* Quiescent server states: main() has finished, the server listens, no    *)
(* connection is open.  The specifications of single handlers start here.  *)
(***************************************************************************)
Quiescent(S) ==
  /\ REPO_URLS = [r \in RepoSet |-> IF r \in S THEN sUrl ELSE undefined]
  /\ dotGit = S
  /\ cacheRoot = TRUE
  /\ LOCAL_PATHS = Registered(S, Len(RepoNames))
  /\ mainPc = "listening"
  /\ mainIdx = Len(RepoNames) + 1
  /\ child = NoChild
  /\ conns = <<>>
  /\ transports = <<>>
  /\ server = 0
  /\ calls = <<>>
  /\ posts = 0
  /\ lastPost = NoPost
  /\ limit = MaxRequests
  /\ toolCall = NoToolCall
  /\ gitCall = NoGitCall

(***************************************************************************)
(* SpecGit: gitSpawn on the argument vectors the program builds.           *)
(***************************************************************************)
\* Every invocation of gitSpawn in the source: ensureRepo's clone and the
\* three tool handlers' grep, show and branch.
GitInvocations ==
  LET lp == Registered(RepoSet, Len(RepoNames))
  IN {CloneSpawn(u, r) : u \in GitUrls, r \in RepoSet}
     \cup {search_codeBegin(lp, r, q, b, undefined) :
             r \in RepoSet, q \in {sQuery, sGrep}, b \in ToolBranches}
     \cup {read_fileBegin(lp, r, <<"a">>, b) : r \in RepoSet, b \in ToolBranches \cup {sGrep}}
     \cup {list_branchesBegin(lp, r) : r \in RepoSet}

InitGit == \E S \in SUBSET RepoSet : Quiescent(S)

\* const process = spawn("git", args, { cwd })
GitStart ==
  /\ gitCall.pc = "idle"
  /\ \E inv \in GitInvocations :
       gitCall' = [pc |-> "running", args |-> inv.args, cwd |-> inv.cwd]
  /\ UNCHANGED <<startupVars, sessionVars, toolCall>>

\* The child process ends; the promise settles.
GitEnd ==
  /\ gitCall.pc = "running"
  /\ \E ev \in EventsFor(gitCall.args) :
       gitCall' = [pc |-> "settled", args |-> gitCall.args, cwd |-> gitCall.cwd,
                   ev |-> ev, settled |-> gitSpawnSettle(gitCall.args, ev)]
  /\ UNCHANGED <<startupVars, sessionVars, toolCall>>

GitForget ==
  /\ gitCall.pc = "settled"
  /\ gitCall' = NoGitCall
  /\ UNCHANGED <<startupVars, sessionVars, toolCall>>

NextGit == GitStart \/ GitEnd \/ GitForget

SpecGit == InitGit /\ [][NextGit]_vars

(***************************************************************************)
(* SpecTools: one tool handler at a time, called with its typed arguments. *)
(***************************************************************************)
NoEvent == [event |-> "none", code |-> -1, stdout |-> <<>>, stderr |-> <<>>, message |-> <<>>]

NoResult == [kind |-> "none", text |-> <<>>, isError |-> FALSE]

\* The handler has run up to its first await, with outcome b.
Begun(tool, repo, query, path, branch, b) ==
  [pc      |-> IF b.kind = "spawn" THEN "awaiting" ELSE "done",
   tool    |-> tool, repo |-> repo, query |-> query, path |-> path, branch |-> branch,
   spawned |-> IF b.kind = "spawn" THEN <<b>> ELSE <<>>,
   ev      |-> NoEvent,
   result  |-> IF b.kind = "spawn" THEN NoResult ELSE b]

\* The continuation of a handler after its gitSpawn promise settled.
ToolEnd(tool, settled) ==
  CASE tool = "search_code" -> search_codeEnd(settled)
    [] tool = "read_file" -> read_fileEnd(settled)
    [] tool = "list_branches" -> list_branchesEnd(settled)

InitTools == \E S \in SUBSET RepoSet : Quiescent(S)

Call_list_repos ==
  /\ toolCall.pc = "idle"
  /\ toolCall' = Begun("list_repos", undefined, undefined, undefined, undefined,
                       list_repos(LOCAL_PATHS))
  /\ UNCHANGED <<startupVars, sessionVars, gitCall>>

Call_search_code ==
  /\ toolCall.pc = "idle"
  /\ \E repo \in RepoSet, branch \in ToolBranches :
       toolCall' = Begun("search_code", repo, sQuery, undefined, branch,
                         search_codeBegin(LOCAL_PATHS, repo, sQuery, branch, undefined))
  /\ UNCHANGED <<startupVars, sessionVars, gitCall>>

Call_read_file ==
  /\ toolCall.pc = "idle"
  /\ \E repo \in RepoSet, path \in ToolPaths, branch \in ToolBranches :
       toolCall' = Begun("read_file", repo, undefined, path, branch,
                         read_fileBegin(LOCAL_PATHS, repo, path, branch))
  /\ UNCHANGED <<startupVars, sessionVars, gitCall>>

Call_list_branches ==
  /\ toolCall.pc = "idle"
  /\ \E repo \in RepoSet :
       toolCall' = Begun("list_branches", repo, undefined, undefined, undefined,
                         list_branchesBegin(LOCAL_PATHS, repo))
  /\ UNCHANGED <<startupVars, sessionVars, gitCall>>

\* The git process of the awaiting handler ends and the handler resumes.
ToolGitEnd ==
  /\ toolCall.pc = "awaiting"
  /\ \E ev \in EventsFor(toolCall.spawned[1].args) :
       toolCall' = [toolCall EXCEPT
                      !.pc = "done",
                      !.ev = ev,
                      !.result = ToolEnd(toolCall.tool,
                                         gitSpawnSettle(toolCall.spawned[1].args, ev))]
  /\ UNCHANGED <<startupVars, sessionVars, gitCall>>

ToolForget ==
  /\ toolCall.pc = "done"
  /\ toolCall' = NoToolCall
  /\ UNCHANGED <<startupVars, sessionVars, gitCall>>

NextTools ==
  \/ Call_list_repos
  \/ Call_search_code
  \/ Call_read_file
  \/ Call_list_branches
  \/ ToolGitEnd
  \/ ToolForget

SpecTools == InitTools /\ [][NextTools]_vars

(***************************************************************************)
(* Startup: main() and ensureRepo (index.ts 63-78, 251-264).               *)
(***************************************************************************)
\* The repository the for-loop of main() is at.
CurrentRepo == RepoNames[mainIdx]

\* The environment of Spec: each URL is unset or set.  Only the directories
\* of configured repositories are ever looked at, so only they may exist.
Init ==
  /\ REPO_URLS \in [RepoSet -> {undefined, sUrl}]
  /\ dotGit \in SUBSET {r \in RepoSet : ~Falsy(REPO_URLS[r])}
  /\ cacheRoot \in {b \in BOOLEAN : dotGit # {} => b}
  /\ LOCAL_PATHS = <<>>
  /\ mainPc = "loop"
  /\ mainIdx = 1
  /\ child = NoChild
  /\ conns = <<>>
  /\ transports = <<>>
  /\ server = 0
  /\ calls = <<>>
  /\ posts = 0
  /\ lastPost = NoPost
  /\ limit = BootRequests
  /\ toolCall = NoToolCall
  /\ gitCall = NoGitCall

\* for (const [name, url] of ...) { if (url) ... } with url falsy.
MainSkip ==
  /\ mainPc = "loop"
  /\ mainIdx <= Len(RepoNames)
  /\ Falsy(REPO_URLS[CurrentRepo])
  /\ mainIdx' = mainIdx + 1
  /\ UNCHANGED <<REPO_URLS, dotGit, cacheRoot, LOCAL_PATHS, mainPc, child,
                 sessionVars, toolCall, gitCall>>

\* ensureRepo up to its first await: LOCAL_PATHS[name] = localPath, then
\* fs.access is started.
EnsureRepoBegin ==
  /\ mainPc = "loop"
  /\ mainIdx <= Len(RepoNames)
  /\ ~Falsy(REPO_URLS[CurrentRepo])
  /\ LOCAL_PATHS' = Assign(LOCAL_PATHS, CurrentRepo, PathJoin(CACHE_DIR, CurrentRepo))
  /\ mainPc' = "access"
  /\ UNCHANGED <<REPO_URLS, dotGit, cacheRoot, mainIdx, child,
                 sessionVars, toolCall, gitCall>>

\* fs.access(localPath/.git) resolves: "Ready.", ensureRepo returns.
EnsureRepoReady ==
  /\ mainPc = "access"
  /\ CurrentRepo \in dotGit
  /\ mainPc' = "loop"
  /\ mainIdx' = mainIdx + 1
  /\ UNCHANGED <<REPO_URLS, dotGit, cacheRoot, LOCAL_PATHS, child,
                 sessionVars, toolCall, gitCall>>

\* fs.access rejects: "Cloning...", fs.mkdir(CACHE_DIR) is started.
EnsureRepoMissing ==
  /\ mainPc = "access"
  /\ CurrentRepo \notin dotGit
  /\ mainPc' = "mkdir"
  /\ UNCHANGED <<REPO_URLS, dotGit, cacheRoot, LOCAL_PATHS, mainIdx, child,
                 sessionVars, toolCall, gitCall>>

\* fs.mkdir resolves and gitSpawn(["clone", remoteUrl, name], CACHE_DIR)
\* spawns the clone.
EnsureRepoClone ==
  /\ mainPc = "mkdir"
  /\ cacheRoot' = TRUE
  /\ child' = CloneSpawn(REPO_URLS[CurrentRepo], CurrentRepo)
  /\ mainPc' = "clone"
  /\ UNCHANGED <<REPO_URLS, dotGit, LOCAL_PATHS, mainIdx, sessionVars, toolCall, gitCall>>

\* The clone process ends.  Resolved: "Cloned.", ensureRepo returns.
\* Rejected: nothing catches the rejection in ensureRepo (there is no catch
\* around line 75) or in main() (line 254, line 264): main()'s promise
\* rejects, the loop is abandoned and app.listen is never reached.
CloneEnd ==
  /\ mainPc = "clone"
  /\ \E ev \in OtherEvents :
       LET settled == gitSpawnSettle(child.args, ev)
       IN IF settled.kind = "resolve"
          THEN /\ mainPc' = "loop"
               /\ mainIdx' = mainIdx + 1
               /\ dotGit' = IF ev.code = 0 THEN dotGit \cup {CurrentRepo} ELSE dotGit
          ELSE /\ mainPc' = "rejected"
               /\ UNCHANGED <<mainIdx, dotGit>>
  /\ child' = NoChild
  /\ UNCHANGED <<REPO_URLS, cacheRoot, LOCAL_PATHS, sessionVars, toolCall, gitCall>>

\* Mutant of Listen: app.listen is not held back by the loop of main().
Listen_early ==
  /\ mainPc = "loop"
  /\ mainPc' = "listening"
  /\ UNCHANGED <<REPO_URLS, dotGit, cacheRoot, LOCAL_PATHS, mainIdx, child,
                 sessionVars, toolCall, gitCall>>

\* app.listen(PORT, ...)
Listen ==
  /\ mainPc = "loop"
  /\ mainIdx > Len(RepoNames)
  /\ mainPc' = "listening"
  /\ UNCHANGED <<REPO_URLS, dotGit, cacheRoot, LOCAL_PATHS, mainIdx, child,
                 sessionVars, toolCall, gitCall>>

(***************************************************************************)
(* Sessions: GET /sse, keep-alive, close, POST /messages (index.ts         *)
(* 188-249).  The MCP SDK is used as follows: new SSEServerTransport draws *)
(* a random UUID as sessionId; server.connect(transport) makes transport   *)
(* the one transport of the McpServer (its single transport reference is   *)
(* overwritten) and starts it, which writes the endpoint event; a request  *)
(* received on any connected transport is answered through the transport   *)
(* the server holds when the request arrives; the close of a connected     *)
(* transport's response resets the server's reference; handlePostMessage   *)
(* answers 202 and hands the message to the server.                        *)
(***************************************************************************)
\* The session identifiers: opaque strings, named "1", "2", ... here.
SessionIds == {NumToString(i) : i \in 1..limit}

Tools == {"list_repos", "search_code", "read_file", "list_branches"}

\* The path values of the tool calls sent over a session.
SessionPaths == {<<"a">>, sDotDot}

\* The ways the git process of a tool call sent over a session can end.
SessionEvents == {CloseEvent(0, StdoutOf(GrepLines(1)), <<>>)} \cup FailureEvents

\* Map.prototype.set
MapSet(m, k, v) == [x \in (DOMAIN m) \cup {k} |-> IF x = k THEN v ELSE m[x]]

\* Map.prototype.delete
MapDelete(m, k) == [x \in (DOMAIN m) \ {k} |-> m[x]]

\* Map.prototype.get: 0 stands for undefined.
MapGet(m, k) == IF k \in DOMAIN m THEN m[k] ELSE 0

UsedSessionIds(cs) == {cs[i].sessionId : i \in 1..Len(cs)}

\* transport.sessionId of a new SSEServerTransport: a random UUID, that is,
\* an identifier not drawn before.  Identifiers being opaque, the k-th one
\* drawn is named k.
NewSessionId(cs) ==
  NumToString(CHOOSE k \in 1..(Len(cs) + 1) :
                /\ NumToString(k) \notin UsedSessionIds(cs)
                /\ \A j \in 1..(k - 1) : NumToString(j) \in UsedSessionIds(cs))

Frame(type, sessionId, seq) == [type |-> type, sessionId |-> sessionId, seq |-> seq]

\* A write to the response of connection c; nothing is written once its
\* write side has ended or the connection is gone (c = 0: the server holds
\* no transport).
Written(cs, c, frame) ==
  IF c # 0 /\ ~cs[c].closed /\ ~cs[c].writableEnded
  THEN [cs EXCEPT ![c].stream = Append(@, frame)]
  ELSE cs

\* The events explored so far: connections accepted, POST /messages
\* requests handled, responses whose write side ended.
WriteEnded(conn) == conn.writableEnded

Handled == Len(conns) + posts + Len(SelectSeq(conns, WriteEnded))

\* Mutant of EventLoopFree: the server waits for the child process, as with
\* spawnSync.
EventLoopFree_sync(waiting) == waiting = <<>>

\* gitSpawn starts the child with spawn and returns a promise at once
\* (index.ts 37-38): the callbacks of the server run whatever calls are
\* waiting for their child process.
EventLoopFree(waiting) == TRUE

\* The handler of a tool call, run up to its first await.
ToolBegin(lp, tool, repo, path) ==
  CASE tool = "list_repos" -> list_repos(lp)
    [] tool = "search_code" -> search_codeBegin(lp, repo, sQuery, undefined, undefined)
    [] tool = "read_file" -> read_fileBegin(lp, repo, path, undefined)
    [] tool = "list_branches" -> list_branchesBegin(lp, repo)

\* app.get("/sse", ...)
SseConnect ==
  /\ mainPc = "listening"
  /\ EventLoopFree(calls)
  /\ Handled < limit
  /\ LET sid == NewSessionId(conns)
         c == Len(conns) + 1
     IN /\ conns' = Append(conns, [sessionId |-> sid, closed |-> FALSE,
                                     writableEnded |-> FALSE, keepAlive |-> TRUE,
                                     pinged |-> FALSE,
                                     stream |-> <<Frame("endpoint", sid, 0)>>])
        /\ transports' = MapSet(transports, sid, c)
        /\ server' = c
  /\ UNCHANGED <<startupVars, calls, posts, lastPost, limit, toolCall, gitCall>>

\* The callback of keepAliveInterval.  The keep-alive frames written to a
\* connection are recorded by its flag pinged, not in its stream.
KeepAliveTick(c) ==
  /\ c \in 1..Len(conns)
  /\ conns[c].keepAlive
  /\ EventLoopFree(calls)
  /\ IF conns[c].writableEnded \/ conns[c].closed
     THEN conns' = [conns EXCEPT ![c].keepAlive = FALSE]
     ELSE conns' = [conns EXCEPT ![c].pinged = TRUE]
  /\ UNCHANGED <<startupVars, transports, server, calls, posts, lastPost, limit, toolCall, gitCall>>

\* The write side of the response of c ends (response.end(), as the close()
\* of its transport calls it) while its "close" event is still to come:
\* res.writableEnded becomes true, the case the keep-alive callback tests.
ResEnd(c) ==
  /\ c \in 1..Len(conns)
  /\ ~conns[c].closed
  /\ ~conns[c].writableEnded
  /\ Handled < limit
  /\ conns' = [conns EXCEPT ![c].writableEnded = TRUE]
  /\ UNCHANGED <<startupVars, transports, server, calls, posts, lastPost, limit, toolCall, gitCall>>

\* Mutant of CloseHandlerDelete: the entry is left in the map.
CloseHandlerDelete_kept(m, sessionId) == m

\* transports.delete(transport.sessionId) of the close handler.
CloseHandlerDelete(m, sessionId) == MapDelete(m, sessionId)

\* The connection of c closes: res.on("close", ...) of index.ts, then the
\* close listener of the transport, which resets the server's transport.
ResClose(c) ==
  /\ c \in 1..Len(conns)
  /\ ~conns[c].closed
  /\ EventLoopFree(calls)
  /\ conns' = [conns EXCEPT ![c].closed = TRUE, ![c].keepAlive = FALSE]
  /\ transports' = CloseHandlerDelete(transports, conns[c].sessionId)
  /\ server' = 0
  /\ UNCHANGED <<startupVars, calls, posts, lastPost, limit, toolCall, gitCall>>

\* Mutant of PostStatus: the check for a missing sessionId is left out.
PostStatus_unchecked(m, sessionId) ==
  IF MapGet(m, sessionId) = 0 THEN 404 ELSE 202

\* The status POST /messages answers with: 400, 404, or the transport's 202.
PostStatus(m, sessionId) ==
  IF Falsy(sessionId) THEN 400
  ELSE IF MapGet(m, sessionId) = 0 THEN 404
  ELSE 202

\* Mutant of PostTransport: the transport connected last is taken, whatever
\* the identifier.
PostTransport_last(m, sessionId) ==
  IF DOMAIN m = {} THEN 0
  ELSE m[CHOOSE s \in DOMAIN m : \A r \in DOMAIN m : m[r] <= m[s]]

\* const transport = transports.get(sessionId)
PostTransport(m, sessionId) == MapGet(m, sessionId)

\* app.post("/messages", ...) for a request carrying a tools/call message.
PostMessages(sessionId, tool, repo, path) ==
  /\ mainPc = "listening"
  /\ EventLoopFree(calls)
  /\ Handled < limit
  /\ posts' = posts + 1
  /\ LET status == PostStatus(transports, sessionId)
         transport == PostTransport(transports, sessionId)
         begun == ToolBegin(LOCAL_PATHS, tool, repo, path)
     IN /\ lastPost' = [sessionId |-> sessionId, status |-> status,
                        handedTo |-> IF status = 202 THEN transport ELSE 0]
        /\ IF status # 202
           THEN UNCHANGED <<conns, calls>>
           ELSE IF begun.kind = "spawn"
           THEN /\ calls' = Append(calls, [sessionId |-> sessionId, via |-> server,
                                           tool |-> tool, args |-> begun.args,
                                           seq |-> posts + 1])
                /\ UNCHANGED conns
           ELSE /\ conns' = Written(conns, server, Frame("response", sessionId, posts + 1))
                /\ UNCHANGED calls
  /\ UNCHANGED <<startupVars, transports, server, limit, toolCall, gitCall>>

RemoveAt(s, i) == SubSeq(s, 1, i - 1) \o SubSeq(s, i + 1, Len(s))

\* The git process of the i-th waiting tool call ends: its handler resumes
\* and returns, and the result is sent.
CallGitEnd(i) ==
  /\ i \in 1..Len(calls)
  /\ \E ev \in SessionEvents :
       LET result == ToolEnd(calls[i].tool, gitSpawnSettle(calls[i].args, ev))
       IN /\ result.kind = "return"
          /\ conns' = Written(conns, calls[i].via,
                              Frame("response", calls[i].sessionId, calls[i].seq))
  /\ calls' = RemoveAt(calls, i)
  /\ UNCHANGED <<startupVars, transports, server, posts, lastPost, limit, toolCall, gitCall>>

\* The steps of a listening server.
Serve ==
  \/ SseConnect
  \/ \E c \in 1..Len(conns) : KeepAliveTick(c)
  \/ \E c \in 1..Len(conns) : ResEnd(c)
  \/ \E c \in 1..Len(conns) : ResClose(c)
  \/ \E sessionId \in SessionIds \cup {undefined}, tool \in Tools,
        repo \in RepoSet, path \in SessionPaths :
       PostMessages(sessionId, tool, repo, path)
  \/ \E i \in 1..Len(calls) : CallGitEnd(i)

\* SpecServe: the sessions of a server that listens with one repository
\* prepared and two not configured, so that tool calls name both registered
\* and unregistered repositories.
InitServe == Quiescent({sRevm})

SpecServe == InitServe /\ [][Serve]_vars

Next ==
  \/ MainSkip
  \/ EnsureRepoBegin
  \/ EnsureRepoReady
  \/ EnsureRepoMissing
  \/ EnsureRepoClone
  \/ CloneEnd
  \/ Listen
  \/ Serve

Spec == Init /\ [][Next]_vars

(***************************************************************************)
(* Properties.                                                             *)
(***************************************************************************)

\* The segments of a path: its parts between "/" characters.
RECURSIVE Segments(_)
Segments(s) ==
  IF \E i \in 1..Len(s) : s[i] = "/"
  THEN LET k == CHOOSE i \in 1..Len(s) : s[i] = "/" /\ \A j \in 1..(i - 1) : s[j] # "/"
       IN <<SubSeq(s, 1, k - 1)>> \o Segments(SubSeq(s, k + 1, Len(s)))
  ELSE <<s>>

HasParentSegment(s) == \E i \in 1..Len(Segments(s)) : Segments(s)[i] = sDotDot

BeginsWithRoot(s) == s # <<>> /\ s[1] = "/"

Registers(lp, repo) == \E i \in 1..Len(lp) : lp[i].key = repo

\* C5: every tool handler completes by returning a text result, never by
\* throwing; for a repository name that is not registered in LOCAL_PATHS,
\* search_code, read_file and list_branches return a text and spawn nothing.
C5_HandlersNeverThrow ==
  toolCall.pc = "done" =>
    /\ toolCall.result.kind = "return"
    /\ (toolCall.tool # "list_repos" /\ ~Registers(LOCAL_PATHS, toolCall.repo))
         => toolCall.spawned = <<>>

\* C6: for every path with a parent-directory segment or a leading "/", for
\* every repository name (registered or not) and every branch, read_file
\* returns the InvalidPath error result and has spawned no git process.
C6_InvalidPathFirst ==
  (/\ toolCall.pc # "idle"
   /\ toolCall.tool = "read_file"
   /\ (HasParentSegment(toolCall.path) \/ BeginsWithRoot(toolCall.path)))
    => /\ toolCall.pc = "done"
       /\ toolCall.result = Return(sInvalidPath, TRUE)
       /\ toolCall.spawned = <<>>

\* The n lines of the output gitSpawn resolves for a git grep that printed
\* GrepLines(n): stdout with its surrounding whitespace removed.
ResolvedLines(n) ==
  [i \in 1..n |-> IF i = n THEN TrimEnd(GrepLine(i)) ELSE GrepLine(i)]

\* The first k lines of a sequence of lines, in order, one per line.
RECURSIVE LinesText(_, _)
LinesText(lines, k) ==
  IF k = 0 THEN <<>>
  ELSE IF k = 1 THEN lines[1]
  ELSE LinesText(lines, k - 1) \o sNL \o lines[k]

TruncationLaw(lines) ==
  IF Len(lines) > 50
  THEN LinesText(lines, 50) \o sNL \o sMoreOpen \o NumToString(Len(lines) - 50) \o sMoreClose
  ELSE LinesText(lines, Len(lines))

\* C7: truncation law of search_code: for a search output of n lines, n > 50
\* gives exactly the first 50 lines in order followed by the marker with the
\* count n - 50, 1 <= n <= 50 gives exactly the n lines and no marker, and no
\* match (git grep exits with 1) gives "No matches.".
C7_TruncationLaw ==
  (toolCall.pc = "done" /\ toolCall.tool = "search_code" /\ toolCall.ev.event = "close") =>
    /\ \A n \in 1..MaxLines :
         (toolCall.ev.code = 0 /\ toolCall.ev.stdout = StdoutOf(GrepLines(n)))
           => toolCall.result = Return(TruncationLaw(ResolvedLines(n)), FALSE)
    /\ toolCall.ev.code = 1 => toolCall.result = Return(sNoMatches, FALSE)

\* Witness of C7: a search that printed more than 50 lines has returned.
C7_Witness ==
  /\ toolCall.pc = "done"
  /\ toolCall.tool = "search_code"
  /\ toolCall.ev.code = 0
  /\ toolCall.ev.stdout = StdoutOf(GrepLines(MaxLines))
  /\ MaxLines > 50
  /\ Len(Split(toolCall.result.text)) = 51

\* C8: exit-code policy of gitSpawn: exit 0 resolves with the trimmed stdout;
\* exit 1 resolves with the empty string exactly when the invocation is the
\* search operation (git grep), for no clone, show or branch invocation
\* whatever its arguments; every other non-zero exit rejects with stderr, or
\* with the generic message when stderr is empty.
C8_ExitCodePolicy ==
  (gitCall.pc = "settled" /\ gitCall.ev.event = "close") =>
    LET ev == gitCall.ev
        isSearch == gitCall.args[1] = sGrep
        failure == Reject(sGitFailedPrefix \o (IF ev.stderr = <<>> THEN sUnknownError ELSE ev.stderr))
    IN /\ ev.code = 0 => gitCall.settled = Resolve(Trim(ev.stdout))
       /\ ev.code = 1 => IF isSearch THEN gitCall.settled = Resolve(<<>>)
                                     ELSE gitCall.settled = failure
       /\ ev.code \notin {0, 1} => gitCall.settled = failure

Open(c) == c \in 1..Len(conns) /\ ~conns[c].closed

\* C1: the result of a tool call that arrived tagged with a session's
\* identifier is written only to that session's own stream, never to the
\* stream of another session.
C1_ResultsToOwnStream ==
  \A c \in 1..Len(conns) : \A k \in 1..Len(conns[c].stream) :
    conns[c].stream[k].type = "response"
      => conns[c].stream[k].sessionId = conns[c].sessionId

\* C2: the transports map binds each identifier to the one transport that
\* registered it, two open connections never share an identifier, a removed
\* identifier is not registered again, and a POST /messages tagged s is
\* handed only to the transport registered under s by its own connection.
C2_SessionIsolation ==
  /\ \A c \in 1..Len(conns) : \A d \in 1..Len(conns) :
       (c # d /\ Open(c) /\ Open(d)) => conns[c].sessionId # conns[d].sessionId
  /\ \A s \in DOMAIN transports :
       /\ Open(transports[s])
       /\ conns[transports[s]].sessionId = s
  /\ \A c \in 1..Len(conns) :
       IF conns[c].closed THEN conns[c].sessionId \notin DOMAIN transports
       ELSE MapGet(transports, conns[c].sessionId) = c
  /\ lastPost.handedTo # 0 =>
       /\ lastPost.handedTo \in 1..Len(conns)
       /\ conns[lastPost.handedTo].sessionId = lastPost.sessionId

\* Witness of C2: two connections are open and a message tagged with the
\* first one's identifier has been handed to its transport.
C2_Witness ==
  /\ Open(1) /\ Open(2)
  /\ lastPost.status = 202
  /\ lastPost.sessionId = conns[1].sessionId
  /\ lastPost.handedTo = 1

\* C3: once a connection has closed, its identifier is absent from the
\* transports map and its keep-alive timer is cancelled; every later
\* POST /messages carrying that identifier is answered 404; and the close
\* removes that session's entry only and changes no other session.
C3_CloseCleanup ==
  /\ [](\A c \in 1..Len(conns) :
          conns[c].closed => /\ conns[c].sessionId \notin DOMAIN transports
                             /\ ~conns[c].keepAlive)
  /\ [][(/\ posts' = posts + 1
         /\ \E c \in 1..Len(conns) :
              conns[c].closed /\ conns[c].sessionId = lastPost'.sessionId)
          => lastPost'.status = 404]_vars
  /\ [][\A c \in 1..Len(conns) :
          (~conns[c].closed /\ conns'[c].closed)
            => /\ DOMAIN transports' = (DOMAIN transports) \ {conns[c].sessionId}
               /\ \A s \in DOMAIN transports' : transports'[s] = transports[s]
               /\ \A d \in 1..Len(conns) : d # c => conns'[d] = conns[d]]_vars

\* Witness of C3: a message tagged with a session's identifier was forwarded
\* and answered while the session was open; the session has closed and a
\* later message with the same identifier was answered 404.
C3_Witness ==
  \E c \in 1..Len(conns) :
    /\ conns[c].closed
    /\ \E k \in 1..Len(conns[c].stream) :
         conns[c].stream[k] = Frame("response", conns[c].sessionId, 1)
    /\ posts = 2
    /\ lastPost = [sessionId |-> conns[c].sessionId, status |-> 404, handedTo |-> 0]
    /\ \E d \in 1..Len(conns) : Open(d)

\* C4: POST /messages answers 400 when sessionId is absent, 404 when no open
\* session is registered under it, and otherwise forwards the request to the
\* bound transport; a 400 or 404 answer leaves the transports map, every
\* session and the server as they were.
C4_PostMessagesAnswers ==
  [][posts' = posts + 1 =>
       LET s == lastPost'.sessionId
       IN /\ Falsy(s) => lastPost'.status = 400
          /\ (~Falsy(s) /\ s \notin DOMAIN transports) => lastPost'.status = 404
          /\ (~Falsy(s) /\ s \in DOMAIN transports)
               => /\ lastPost'.status = 202
                  /\ lastPost'.handedTo = transports[s]
          /\ lastPost'.status \in {400, 404}
               => /\ lastPost'.handedTo = 0
                  /\ UNCHANGED <<transports, conns, server, calls, mainPc>>]_vars

\* Witness of C4: with a session open, a request without sessionId was
\* answered 400.
C4_Witness ==
  /\ \E c \in 1..Len(conns) : Open(c)
  /\ lastPost.status = 400
  /\ posts >= 1

\* The configured repositories whose ensureRepo has returned.
Prepared ==
  {RepoNames[i] : i \in {j \in 1..Len(RepoNames) : j < mainIdx /\ ~Falsy(REPO_URLS[RepoNames[j]])}}

\* C9: a failed startup clone does not end main(): the loop goes on to the
\* remaining repositories and the server comes to listen, and the failed
\* repository is not available.
C9_CloneFailureIsolated ==
  /\ mainPc # "rejected"
  /\ \A r \in Prepared : r \in dotGit

\* C10: in every state the names registered in LOCAL_PATHS are exactly the
\* configured repositories whose ensureRepo completed successfully.
C10_RegisteredIffPrepared == KeySet(LOCAL_PATHS) = Prepared


\* C11: within one session the responses are written in the arrival order
\* of its messages: in every stream, of two responses to messages of the
\* same session the one to the earlier message (smaller seq) comes first.
C11_ResponsesInArrivalOrder ==
  \A c \in 1..Len(conns) : \A k \in 1..Len(conns[c].stream) : \A l \in 1..Len(conns[c].stream) :
    (/\ k < l
     /\ conns[c].stream[k].type = "response"
     /\ conns[c].stream[l].type = "response"
     /\ conns[c].stream[k].sessionId = conns[c].stream[l].sessionId)
      => conns[c].stream[k].seq < conns[c].stream[l].seq

\* C12: while a tool call waits for its git process, no other step of the
\* server is disabled: the keep-alive tick of every open session can fire
\* and writes its frame, a new /sse connection can be accepted and is
\* registered, and a message of any registered session can be routed.
C12_NothingWaitsForGit ==
  calls # <<>> =>
    /\ \A c \in 1..Len(conns) :
         (conns[c].keepAlive /\ ~conns[c].closed /\ ~conns[c].writableEnded)
           => ENABLED (KeepAliveTick(c) /\ conns'[c].pinged)
    /\ Handled < limit =>
         /\ ENABLED (SseConnect /\ Len(conns') = Len(conns) + 1
                                /\ DOMAIN transports' # DOMAIN transports)
         /\ \A s \in DOMAIN transports :
              ENABLED (PostMessages(s, "list_repos", sRevm, sDotDot)
                       /\ lastPost'.handedTo = transports[s])

\* Witness of C12: the call of session 1 is still waiting for its git
\* process, and a later message of session 2 has been routed to session 2's
\* transport and a keep-alive frame written to session 2's stream.
C12_Witness ==
  /\ Len(calls) = 1
  /\ calls[1].sessionId = <<"1">>
  /\ calls[1].seq = 1
  /\ posts = 2
  /\ Len(conns) = 2
  /\ lastPost = [sessionId |-> conns[2].sessionId, status |-> 202, handedTo |-> 2]
  /\ conns[2].pinged

InProgress ==
  IF mainPc \in {"access", "mkdir", "clone"} THEN {CurrentRepo} ELSE {}

\* C14: ensureRepo runs for one configured repository at a time; the server
\* listens only after ensureRepo has finished for every configured
\* repository, so that no session is opened and no tool call runs before;
\* and once the server listens no clone is spawned and LOCAL_PATHS is not
\* written.
C14_StartupOrdering ==
  /\ [](/\ child # NoChild => (mainPc = "clone" /\ child.args[3] = CurrentRepo)
        /\ mainPc \notin {"listening", "rejected"}
             => KeySet(LOCAL_PATHS) \ Prepared = InProgress)
  /\ [](mainPc = "listening"
          => /\ mainIdx > Len(RepoNames)
             /\ InProgress = {}
             /\ child = NoChild
             /\ \A r \in RepoSet : ~Falsy(REPO_URLS[r]) => r \in Prepared)
  /\ [](mainPc # "listening"
          => conns = <<>> /\ transports = <<>> /\ posts = 0 /\ calls = <<>>)
  /\ [][mainPc = "listening"
          => /\ mainPc' = "listening"
             /\ child' = NoChild
             /\ LOCAL_PATHS' = LOCAL_PATHS]_vars

\* Witness of C14: ensureRepo has run for two repositories, the server
\* listens, a session is open and a tool call is waiting for its git
\* process.
C14_Witness ==
  /\ mainPc = "listening"
  /\ Len(LOCAL_PATHS) = 2
  /\ cacheRoot
  /\ \E c \in 1..Len(conns) : Open(c)
  /\ calls # <<>>

ReadOnlyCommand(args) ==
  \/ Len(args) = 6 /\ args[1] = sGrep /\ args[2] = sDashNI /\ args[5] = sDashDash
  \/ Len(args) = 2 /\ args[1] = sShow
  \/ args = <<sBranch, sDashA>>

\* C16: no tool call changes server state.  Every step of a tool call (its
\* arrival in a POST /messages, the end of its git process), whatever other
\* calls are waiting, leaves LOCAL_PATHS, the transports map and the disk as
\* they were and spawns only grep, show or branch; and the text list_repos
\* returns is the same before and after every step of the listening server.
C16_ToolCallsChangeNothing ==
  /\ [](\A i \in 1..Len(calls) : ReadOnlyCommand(calls[i].args))
  /\ [][(posts' # posts \/ calls' # calls)
          => /\ UNCHANGED <<LOCAL_PATHS, transports, dotGit, cacheRoot, child>>
             /\ Len(calls') <= Len(calls) + 1]_vars
  /\ [][list_repos(LOCAL_PATHS') = list_repos(LOCAL_PATHS)]_vars

\* Witness of C16: a search_code call and a list_branches call are waiting
\* for their git processes at the same time.
C16_Witness ==
  /\ Len(calls) = 2
  /\ calls[1].tool = "search_code"
  /\ calls[2].tool = "list_branches"
  /\ lastPost.status = 202

\* The part of a git object argument after its first ':' (the whole
\* argument when it holds none).
RECURSIVE AfterFirstColon(_)
AfterFirstColon(s) ==
  IF s = <<>> THEN <<>>
  ELSE IF Head(s) = ":" THEN Tail(s)
  ELSE AfterFirstColon(Tail(s))

\* C17: whenever read_file spawns git show, the path part of the object
\* argument (what follows its first ':') contains no ".." and does not begin
\* with "/", for every value of branch and of path.
C17_ShowPathIsChecked ==
  (toolCall.pc # "idle" /\ toolCall.tool = "read_file") =>
    \A i \in 1..Len(toolCall.spawned) :
      LET arg == toolCall.spawned[i].args[2]
      IN /\ toolCall.spawned[i].args[1] = sShow
         /\ ~Includes(AfterFirstColon(arg), sDotDot)
         /\ ~StartsWith(AfterFirstColon(arg), sSlash)

\* C18: read_file rejects only traversal attempts: for a registered
\* repository, a path with no segment equal to ".." that does not begin with
\* "/" passes the check and leads to exactly one git show of <ref>:<path>.
C18_OnlyTraversalRejected ==
  (/\ toolCall.pc # "idle"
   /\ toolCall.tool = "read_file"
   /\ Registers(LOCAL_PATHS, toolCall.repo)
   /\ ~HasParentSegment(toolCall.path)
   /\ ~BeginsWithRoot(toolCall.path))
    => /\ Len(toolCall.spawned) = 1
       /\ toolCall.spawned[1].args =
            <<sShow, OrElse(toolCall.branch, sHEAD) \o sColon \o toolCall.path>>
=============================================================================
